---------------------------- MODULE Spec2Model ----------------------------
(***************************************************************************)
(* Model of src/bot.py: the timer / reminder scheduler of the bot.         *)
(*                                                                         *)
(* Concurrency is asyncio's: one event loop, so a handler or a worker runs *)
(* without interruption from one suspension point to the next.  An action  *)
(* of this module is one such run.  `async with _timer_lock` is not a      *)
(* suspension point: asyncio.Lock.acquire returns without yielding when    *)
(* the lock is free, and no holder of _timer_lock ever suspends, so the    *)
(* lock is free whenever a handler reaches it.                             *)
(*                                                                         *)
(* Strings are sequences of one-character strings.  Time is counted in     *)
(* seconds; every record has its own clock, the seconds elapsed since its  *)
(* start_time, advanced by the sleeps its worker completes (asyncio.sleep  *)
(* is taken to last exactly its argument, code between sleeps no time).    *)
(***************************************************************************)
EXTENDS Integers, Sequences, FiniteSets, TLC

\* ------------------------------------------------------------------ bounds
MaxTimers == 2      \* timer records created in one run
MaxHops == 2        \* largest hops argument tried
MaxReminders == 2   \* reminder records created in one run
MaxObjects == 2     \* timer and reminder records together, where both kinds run
MaxLen == 3         \* longest string of the exhaustive parser inputs

\* --------------------------------------------------------------- constants
WARN == 300         \* the five-minute runway, bot.py:113-114,122
COOLDOWN == 7200    \* duration of every hop after the first, bot.py:106
HOUR == 3600        \* bot.py:87 and the default reminder duration, bot.py:303
MINUTE == 60        \* bot.py:87

\* ------------------------------------------------------------------ inputs
\* /timer calls tried: <<time, hops, link, channel>>
TimerCalls ==
  { << <<"6", "m">>, MaxHops, <<"a">>, "chan" >>,
    << <<" ", "6", "M">>, MaxHops, <<" ", "a", " ">>, "chan" >>,
    << <<"5", "m">>, 1, <<>>, "chan" >>,
    << <<"6", "m">>, 1, <<>>, "none" >>,
    << <<"0", "h", "0", "m">>, 1, <<>>, "chan" >>,
    << <<"3", "0", "s">>, 1, <<>>, "chan" >>,
    << <<"6", "m">>, 0, <<>>, "chan" >> }
\* strings handed to parse_time_string: every string of at most MaxLen of these
\* characters, and some longer ones
ParserAlphabet == { "0", "1", "3", "h", "m", "M", "s", " ", "\t" }
ParserExamples ==
  { <<"0", "h", "0", "m">>,
    <<"1", "h", "3", "0", "m">>,
    <<"1", "h", "3", "0", "m", "x">>,
    <<" ", "1", "H", " ", "3", "0", "M", " ">>,
    <<"1", "h", "\t", "3", "0", "m">>,
    <<"1", "0", "m", "1", "h">>,
    <<"0", "0", "1", "h", "0", "1", "m">> }
ParserInputs ==
  UNION { [1 .. n -> ParserAlphabet] : n \in 0 .. MaxLen } \cup ParserExamples
\* /timer calls whose listing is read: one, six and sixty-one minutes
DisplayCalls ==
  { << <<"1", "m">>, 1, <<>>, "chan" >>,
    << <<"6", "m">>, 1, <<>>, "chan" >>,
    << <<"1", "h", "1", "m">>, 1, <<>>, "chan" >> }
\* seconds between the last wake of a listed record's worker and a /timers call
DisplayElapsed == { 0, 1, 59, 60, 61, 240, 241, 299, 300, 3359, 3360 }
\* /reminder calls tried: <<user id, message, channel>>
ReminderCalls ==
  { << 1, <<"b", "o", "s", "s">>, "chan" >>,
    << 1, <<"R", "a", "i", "d", "s", " ", "2", "m">>, "none" >>,
    << 2, <<"b", "o", "s", "s", " ", "2", "m">>, "chan" >>,
    << 2, <<"b", "o", "s", "s", " ", "0", "m">>, "chan" >>,
    << 1, <<"x">>, "chan" >>,
    << 2, <<" ">>, "chan" >> }
Users == { 1, 2 }

\* ----------------------------------------------------------- string helpers
Digits == { "0", "1", "2", "3", "4", "5", "6", "7", "8", "9" }

DigitVal(c) ==
  CASE c = "0" -> 0 [] c = "1" -> 1 [] c = "2" -> 2 [] c = "3" -> 3 [] c = "4" -> 4
    [] c = "5" -> 5 [] c = "6" -> 6 [] c = "7" -> 7 [] c = "8" -> 8 [] c = "9" -> 9

RECURSIVE int(_)
int(s) ==
  IF s = <<>> THEN 0
  ELSE int(SubSeq(s, 1, Len(s) - 1)) * 10 + DigitVal(s[Len(s)])

LowerChar(c) ==
  CASE c = "A" -> "a" [] c = "B" -> "b" [] c = "C" -> "c" [] c = "D" -> "d" [] c = "E" -> "e"
    [] c = "F" -> "f" [] c = "G" -> "g" [] c = "H" -> "h" [] c = "I" -> "i" [] c = "J" -> "j"
    [] c = "K" -> "k" [] c = "L" -> "l" [] c = "M" -> "m" [] c = "N" -> "n" [] c = "O" -> "o"
    [] c = "P" -> "p" [] c = "Q" -> "q" [] c = "R" -> "r" [] c = "S" -> "s" [] c = "T" -> "t"
    [] c = "U" -> "u" [] c = "V" -> "v" [] c = "W" -> "w" [] c = "X" -> "x" [] c = "Y" -> "y"
    [] c = "Z" -> "z"
    [] OTHER -> c

lower(s) == [i \in 1 .. Len(s) |-> LowerChar(s[i])]

RemoveSpaces(s) == SelectSeq(s, LAMBDA c : c # " ")

RECURSIVE lstrip(_)
lstrip(s) == IF s # <<>> /\ s[1] = " " THEN lstrip(Tail(s)) ELSE s

RECURSIVE rstrip(_)
rstrip(s) ==
  IF s # <<>> /\ s[Len(s)] = " " THEN rstrip(SubSeq(s, 1, Len(s) - 1)) ELSE s

strip(s) == rstrip(lstrip(s))

\* number of consecutive digits of s from position i on
RECURSIVE DigitRun(_, _)
DigitRun(s, i) ==
  IF i <= Len(s) /\ s[i] \in Digits THEN 1 + DigitRun(s, i + 1) ELSE 0

\* re.fullmatch(r'(?:(\d+)h)?(?:(\d+)m)?$', s): the two groups, <<>> for a
\* group that did not take part
FullMatch(s) ==
  LET n1 == DigitRun(s, 1)
      has1 == n1 > 0 /\ n1 + 1 <= Len(s) /\ s[n1 + 1] = "h"
      p == IF has1 THEN n1 + 2 ELSE 1
      n2 == DigitRun(s, p)
      has2 == n2 > 0 /\ p + n2 <= Len(s) /\ s[p + n2] = "m"
      q == IF has2 THEN p + n2 + 1 ELSE p
  IN  [ matched |-> q = Len(s) + 1,
        g1 |-> IF has1 THEN SubSeq(s, 1, n1) ELSE <<>>,
        g2 |-> IF has2 THEN SubSeq(s, p, p + n2 - 1) ELSE <<>> ]

\* the spaces left in the string
parse_time_stringKeepingSpaces(time_str) ==
  LET match == FullMatch(lower(time_str))
      hours == IF match.g1 # <<>> THEN int(match.g1) ELSE 0
      minutes == IF match.g2 # <<>> THEN int(match.g2) ELSE 0
      total_seconds == hours * HOUR + minutes * MINUTE
  IN  IF ~match.matched THEN [ok |-> FALSE, val |-> 0, err |-> "format"]
      ELSE IF total_seconds <= 0 THEN [ok |-> FALSE, val |-> 0, err |-> "nonpositive"]
      ELSE [ok |-> TRUE, val |-> total_seconds, err |-> "none"]

\* bot.py:79-90
parse_time_string(time_str) ==
  LET cleaned == lower(RemoveSpaces(time_str))
      match == FullMatch(cleaned)
      hours == IF match.g1 # <<>> THEN int(match.g1) ELSE 0
      minutes == IF match.g2 # <<>> THEN int(match.g2) ELSE 0
      total_seconds == hours * HOUR + minutes * MINUTE
  IN  IF ~match.matched THEN [ok |-> FALSE, val |-> 0, err |-> "format"]
      ELSE IF total_seconds <= 0 THEN [ok |-> FALSE, val |-> 0, err |-> "nonpositive"]
      ELSE [ok |-> TRUE, val |-> total_seconds, err |-> "none"]

DigitChar(d) ==
  CASE d = 0 -> "0" [] d = 1 -> "1" [] d = 2 -> "2" [] d = 3 -> "3" [] d = 4 -> "4"
    [] d = 5 -> "5" [] d = 6 -> "6" [] d = 7 -> "7" [] d = 8 -> "8" [] d = 9 -> "9"

\* the decimal digits of a natural number, as an f-string writes it
RECURSIVE str(_)
str(n) == IF n < 10 THEN <<DigitChar(n)>> ELSE str(n \div 10) \o <<DigitChar(n % 10)>>

\* the minutes always written as 0m below one hour
humanize_secondsZeroMinutes(seconds) ==
  LET hours == (seconds \div 60) \div 60
      minutes == (seconds \div 60) % 60
  IN  IF hours # 0 THEN str(hours) \o <<"h">> \o str(minutes) \o <<"m">>
      ELSE <<"0", "m">>

\* bot.py:92-97
humanize_seconds(seconds) ==
  LET minutes_total == seconds \div 60
      hours == minutes_total \div 60
      minutes == minutes_total % 60
  IN  IF hours # 0 THEN str(hours) \o <<"h">> \o str(minutes) \o <<"m">>
      ELSE str(minutes) \o <<"m">>


\* ----------------------------------------------------------- list helpers
Range(q) == { q[i] : i \in 1 .. Len(q) }

\* list.remove(x): drops the first element equal to x
RECURSIVE RemoveFirst(_, _)
RemoveFirst(q, x) ==
  IF q = <<>> THEN <<>>
  ELSE IF Head(q) = x THEN Tail(q)
  ELSE <<Head(q)>> \o RemoveFirst(Tail(q), x)

\* ------------------------------------------------------------------- state
VARIABLES
  active_timers,     \* bot.py:71, the list of registered timer objects (by object number)
  timers,            \* every TimerData object built so far, object k at index k
  timer_id_counter,  \* bot.py:73
  task,              \* task[k]: the asyncio task running execute_timer(timers[k]): where it is
                     \* suspended, its hop, when that hop began, whether cancel() was called
  clock,             \* clock[k]: seconds since timers[k].start_time
  notes,             \* notes[k]: the early warnings object k's worker handed to channel.send
  hops_done,         \* hops_done[k]: [start, end] of every hop whose sleeps all completed
  removed,           \* ids remove_command reported deleted
  reply,             \* the answer of the command handler that took the last step (NoReply
                     \* after a worker's step)
  active_reminders,  \* bot.py:72, user id -> list of reminder objects (by object number)
  reminders,         \* every ReminderData object built so far
  rtask,             \* rtask[r]: the asyncio task running _run_reminder
  rnotes             \* rnotes[r]: notifications reminder r's worker handed to channel.send,
                     \* each with the seconds since the reminder's start_time

timer_vars == <<active_timers, timers, timer_id_counter, task, clock, notes, hops_done, removed>>
reminder_vars == <<active_reminders, reminders, rtask, rnotes>>
vars == <<timer_vars, reply, reminder_vars>>

DonePcs == { "completed", "cancelled", "failed", "returned" }

\* asyncio.Task.done()
done(t) == t.pc \in DonePcs

\* an answer: the command answered, and whether it is a success message or one of
\* the handler's refusals (the messages that begin with a cross mark)
NoReply == [cmd |-> "none", ok |-> TRUE]

Answer(cmd, ok) == reply' = [cmd |-> cmd, ok |-> ok]

Init ==
  /\ active_timers = <<>>
  /\ timers = <<>>
  /\ timer_id_counter = 1
  /\ task = <<>>
  /\ clock = <<>>
  /\ notes = <<>>
  /\ hops_done = <<>>
  /\ removed = {}
  /\ reply = NoReply
  /\ active_reminders = <<>>
  /\ reminders = <<>>
  /\ rtask = <<>>
  /\ rnotes = <<>>

\* ------------------------------------------------------------ timer worker
\* every hop given the first hop's duration
HopDurationAlwaysInitial(timer, hop) == timer.initial_duration

\* bot.py:106
HopDuration(timer, hop) == IF hop = 0 THEN timer.initial_duration ELSE COOLDOWN

\* remaining_hops counted without the hop that is starting
BeginHopOneLess(timer, hop, now) ==
  [timer EXCEPT !.remaining_hops = timer.hops - hop - 1,
                !.alert_time = now + (IF hop = 0 THEN timer.initial_duration ELSE COOLDOWN)]

\* remaining_hops counting the hops begun instead of the hops left
BeginHopCountingUp(timer, hop, now) ==
  [timer EXCEPT !.remaining_hops = hop + 1,
                !.alert_time = now + (IF hop = 0 THEN timer.initial_duration ELSE COOLDOWN)]

\* alert_time set to the moment of the early warning
BeginHopAlertAtWarning(timer, hop, now) ==
  [timer EXCEPT !.remaining_hops = timer.hops - hop,
                !.alert_time = now + (IF HopDuration(timer, hop) > WARN
                                      THEN HopDuration(timer, hop) - WARN
                                      ELSE HopDuration(timer, hop))]

\* bot.py:107-109, the assignments at the top of the loop body
BeginHop(timer, hop, now) ==
  [timer EXCEPT !.remaining_hops = timer.hops - hop,
                !.alert_time = now + HopDuration(timer, hop)]

\* the comparison written >= instead of >
FirstSleepAtLeast(duration) == IF duration >= WARN THEN "presleep" ELSE "sleep"

\* bot.py:113, which branch the hop takes
FirstSleep(duration) == IF duration > WARN THEN "presleep" ELSE "sleep"

\* the finally block left out
CleanupNothing(k) == active_timers

\* list.remove(x) raises ValueError when x is not in the list
RemoveRaises(q, x) == x \notin Range(q)

\* the test left out: remove is called whatever the list holds
InRegistryUntested(k) == TRUE

\* bot.py:131, the test of the finally block
InRegistry(k) == k \in Range(active_timers)

\* bot.py:130-133, the finally block: the list it leaves
Cleanup(k) ==
  IF InRegistry(k) THEN RemoveFirst(active_timers, k) ELSE active_timers

\* how a worker leaving through the finally block ends: as pc, or with the
\* ValueError of a remove called for a record the list does not hold
Ended(k, pc) ==
  IF InRegistry(k) /\ RemoveRaises(active_timers, k) THEN "failed" ELSE pc

\* bot.py:105-124, the loop head reached at time now: next hop, or out of the loop
\* and through the finally block
LoopHead(k, hop, now) ==
  IF hop < timers[k].hops
  THEN /\ timers' = [timers EXCEPT ![k] = BeginHop(@, hop, now)]
       /\ task' = [task EXCEPT ![k].pc = FirstSleep(HopDuration(timers[k], hop)),
                               ![k].hop = hop,
                               ![k].hop_start = now]
       /\ UNCHANGED active_timers
  ELSE /\ active_timers' = Cleanup(k)
       /\ task' = [task EXCEPT ![k].pc = Ended(k, "completed"), ![k].sent = "none"]
       /\ UNCHANGED timers

Runnable(k) == k \in 1 .. Len(task) /\ ~done(task[k]) /\ ~task[k].must_cancel

\* the task's first step: execute_timer up to its first sleep
TaskStart(k) ==
  /\ Runnable(k)
  /\ task[k].pc = "start"
  /\ LoopHead(k, 0, clock[k])
  /\ UNCHANGED <<timer_id_counter, clock, notes, hops_done, removed, reminder_vars>>
  /\ reply' = NoReply

\* bot.py:135-140 called from bot.py:117-121: the message is handed to channel.send
safe_send(k, now) ==
  IF timers[k].channel = "chan"
  THEN /\ notes' = [notes EXCEPT ![k] = Append(@, [hop |-> task[k].hop, at |-> now])]
       /\ task' = [task EXCEPT ![k].pc = "send", ![k].sent = "none"]
  ELSE /\ task' = [task EXCEPT ![k].pc = "finalsleep"]
       /\ UNCHANGED notes

\* bot.py:114-122: sleep(duration - 300) completes
WakePre(k) ==
  /\ Runnable(k)
  /\ task[k].pc = "presleep"
  /\ LET now == clock[k] + (HopDuration(timers[k], task[k].hop) - WARN)
     IN  /\ clock' = [clock EXCEPT ![k] = now]
         /\ IF k \notin Range(active_timers)
            THEN /\ task' = [task EXCEPT ![k].pc = "returned"]
                 /\ UNCHANGED notes
            ELSE safe_send(k, now)
  /\ UNCHANGED <<active_timers, timers, timer_id_counter, hops_done, removed, reminder_vars>>
  /\ reply' = NoReply

SendOutcomes == { "ok", "discord_error", "error" }

\* the except clause left out: every exception of channel.send leaves safe_send
CaughtNothing(outcome) == FALSE

\* bot.py:139: the exceptions safe_send catches are those of the Discord library
Caught(outcome) == outcome = "discord_error"

\* bot.py:138-140: channel.send returns, or raises
SendReturn(k, outcome) ==
  /\ Runnable(k)
  /\ task[k].pc = "send"
  /\ IF outcome = "ok" \/ Caught(outcome)
     THEN /\ task' = [task EXCEPT ![k].pc = "finalsleep", ![k].sent = outcome]
          /\ UNCHANGED active_timers
     ELSE /\ active_timers' = Cleanup(k)
          /\ task' = [task EXCEPT ![k].pc = "failed", ![k].sent = outcome]
  /\ UNCHANGED <<timers, timer_id_counter, clock, notes, hops_done, removed, reminder_vars>>
  /\ reply' = NoReply

\* the hop's last sleep completes after d seconds; the loop goes round
EndHop(k, d) ==
  LET now == clock[k] + d
  IN  /\ clock' = [clock EXCEPT ![k] = now]
      /\ hops_done' = [hops_done EXCEPT
                         ![k] = Append(@, [start |-> task[k].hop_start, end |-> now])]
      /\ LoopHead(k, task[k].hop + 1, now)

\* bot.py:122: sleep(300) completes
WakeFinal(k) ==
  /\ Runnable(k)
  /\ task[k].pc = "finalsleep"
  /\ EndHop(k, WARN)
  /\ UNCHANGED <<timer_id_counter, notes, removed, reminder_vars>>
  /\ reply' = NoReply

\* bot.py:124: sleep(duration) completes
WakeShort(k) ==
  /\ Runnable(k)
  /\ task[k].pc = "sleep"
  /\ EndHop(k, HopDuration(timers[k], task[k].hop))
  /\ UNCHANGED <<timer_id_counter, notes, removed, reminder_vars>>
  /\ reply' = NoReply

\* the cancelled task's next step: CancelledError at the await it is suspended in
\* (bot.py:127-133), or, for a task that never ran, no step of the coroutine at all
DeliverCancel(k) ==
  /\ k \in 1 .. Len(task)
  /\ ~done(task[k])
  /\ task[k].must_cancel
  /\ active_timers' = IF task[k].pc = "start" THEN active_timers ELSE Cleanup(k)
  /\ task' = [task EXCEPT
                ![k].pc = IF task[k].pc = "start" THEN "cancelled" ELSE Ended(k, "cancelled")]
  /\ UNCHANGED <<timers, timer_id_counter, clock, notes, hops_done, removed, reminder_vars>>
  /\ reply' = NoReply


\* ---------------------------------------------------------- timer commands
\* the id taken before the arguments are validated
RejectAfterAllocating ==
  /\ Answer("timer", FALSE)
  /\ timer_id_counter' = timer_id_counter + 1
  /\ UNCHANGED <<active_timers, timers, task, clock, notes, hops_done, removed, reminder_vars>>

\* bot.py:214,218,223: the handler answers with an error and returns
Reject ==
  /\ Answer("timer", FALSE)
  /\ UNCHANGED <<timer_vars, reminder_vars>>

\* the uniqueness check left out
LinkNeverTaken(link) == FALSE

\* bot.py:221
LinkTaken(link) ==
  link # <<>> /\ \E i \in 1 .. Len(active_timers) : timers[active_timers[i]].link = link

\* the increment left out
NextCounterSame(c) == c

\* bot.py:227
NextCounter(c) == c + 1

\* bot.py:229-241; user and region are carried along and never read by the
\* scheduler, and are left out; start_time is the origin of the record's clock
NewTimer(timer_id, channel, seconds, link, hops) ==
  [ id |-> timer_id, channel |-> channel, initial_duration |-> seconds, link |-> link,
    hops |-> hops, remaining_hops |-> hops, start_time |-> 0, alert_time |-> 0 + seconds ]

\* asyncio.create_task: the task exists and has not run yet; sent is how the
\* worker's last channel.send ended, kept until the worker's next send or its end
NewTask == [pc |-> "start", hop |-> 0, hop_start |-> 0, must_cancel |-> FALSE, sent |-> "none"]

\* the new record put at the head of the list
RegisterAtFront(list, k) == <<k>> \o list

\* bot.py:243
Register(list, k) == Append(list, k)

\* bot.py:208-249
timer_command(time, hops, link_arg, channel) ==
  LET parsed == parse_time_string(time)
      link == strip(link_arg)
  IN  IF ~parsed.ok THEN Reject
      ELSE IF hops < 1 THEN Reject
      ELSE IF LinkTaken(link) THEN Reject
      ELSE /\ Len(timers) < MaxTimers
           /\ LET timer_id == timer_id_counter
              IN  /\ timer_id_counter' = NextCounter(timer_id_counter)
                  /\ timers' = Append(timers, NewTimer(timer_id, channel, parsed.val, link, hops))
                  /\ task' = Append(task, NewTask)
                  /\ active_timers' = Register(active_timers, Len(timers) + 1)
                  /\ clock' = Append(clock, 0)
                  /\ notes' = Append(notes, <<>>)
                  /\ hops_done' = Append(hops_done, <<>>)
                  /\ Answer("timer", TRUE)
                  /\ UNCHANGED <<removed, reminder_vars>>

\* the search run over every record ever built instead of the registered ones
FindTimerAmongAll(timer_number) ==
  LET hits == { k \in 1 .. Len(timers) : timers[k].id = timer_number }
  IN  IF hits = {} THEN 0 ELSE CHOOSE k \in hits : \A j \in hits : k <= j

\* bot.py:269-270: the first record of the list with that id, 0 when there is none
FindTimer(timer_number) ==
  LET hits == { i \in 1 .. Len(active_timers) : timers[active_timers[i]].id = timer_number }
  IN  IF hits = {} THEN 0
      ELSE active_timers[CHOOSE i \in hits : \A j \in hits : i <= j]

\* bot.py:271-272
Cancel(tasks, k) ==
  IF ~done(tasks[k]) THEN [tasks EXCEPT ![k].must_cancel = TRUE] ELSE tasks

\* the handler only cancels and leaves the removal to the worker
UnregisterLeftToWorker(k) == active_timers

\* bot.py:273-274: the list the handler leaves
Unregister(k) ==
  IF k \in Range(active_timers) THEN RemoveFirst(active_timers, k) ELSE active_timers

\* bot.py:268-279
remove_command(timer_number) ==
  LET k == FindTimer(timer_number)
  IN  IF k # 0
      THEN /\ task' = Cancel(task, k)
           /\ active_timers' = Unregister(k)
           /\ removed' = removed \cup {timer_number}
           /\ Answer("remove", TRUE)
           /\ UNCHANGED <<timers, timer_id_counter, clock, notes, hops_done, reminder_vars>>
      ELSE /\ Answer("remove", FALSE)
           /\ UNCHANGED <<timer_vars, reminder_vars>>

\* max(0, x)
max0(x) == IF x > 0 THEN x ELSE 0

\* bot.py:260: the whole seconds from now to the record's alert_time, floored at 0
Remaining(t, now) == max0(t.alert_time - now)

\* the longest sleep the worker of record k can be in: how long after its last
\* wake the record can still be found as it is
SleepLeft(k) ==
  CASE task[k].pc = "presleep" -> HopDuration(timers[k], task[k].hop) - WARN
    [] task[k].pc = "finalsleep" -> WARN
    [] task[k].pc = "sleep" -> HopDuration(timers[k], task[k].hop)
    [] OTHER -> 0

\* bot.py:252-265, called elapsed seconds after the last wake of the workers of
\* the records it lists; the answer carries one line per registered timer, in
\* the order of the list
timers_command(elapsed) ==
  /\ \A i \in 1 .. Len(active_timers) : elapsed <= SleepLeft(active_timers[i])
  /\ reply' =
       [ cmd |-> "timers", ok |-> TRUE, at |-> elapsed,
         lines |-> [ i \in 1 .. Len(active_timers) |->
                     LET t == timers[active_timers[i]]
                         remaining == Remaining(t, clock[active_timers[i]] + elapsed)
                     IN  [ id |-> t.id, remaining_hops |-> t.remaining_hops,
                           display |-> humanize_seconds(remaining) ] ] ]
  /\ UNCHANGED <<timer_vars, reminder_vars>>


\* --------------------------------------------------------------- reminders
\* str.split(): the maximal runs of non-space characters
RECURSIVE WordLen(_, _)
WordLen(s, i) == IF i <= Len(s) /\ s[i] # " " THEN 1 + WordLen(s, i + 1) ELSE 0

RECURSIVE split(_)
split(s) ==
  LET t == lstrip(s)
      n == WordLen(t, 1)
  IN  IF t = <<>> THEN <<>>
      ELSE <<SubSeq(t, 1, n)>> \o split(SubSeq(t, n + 1, Len(t)))

\* "".join(parts)
RECURSIVE join(_)
join(parts) == IF parts = <<>> THEN <<>> ELSE Head(parts) \o join(Tail(parts))

\* bot.py:297
allowed == { <<"b", "o", "s", "s">>, <<"s", "u", "p", "e", "r">>, <<"r", "a", "i", "d", "s">> }

\* dict.get(uid, [])
Get(d, uid) == IF uid \in DOMAIN d THEN d[uid] ELSE <<>>

\* dict.pop(uid, None)
Pop(d, uid) == [u \in DOMAIN d \ {uid} |-> d[u]]

\* an emptied list left under its key
ShrinkKeepingKey(d, uid, lst) == [d EXCEPT ![uid] = lst]

\* the user's list becomes lst; an emptied list takes its key with it
\* (bot.py:162-163, bot.py:344-345)
Shrink(d, uid, lst) == IF lst = <<>> THEN Pop(d, uid) ELSE [d EXCEPT ![uid] = lst]

\* the finally block dropping the user's whole list
RCleanupWholeUser(r) == Pop(active_reminders, reminders[r].uid)

\* bot.py:159, the test of the finally block
RInRegistry(r) ==
  LET lst == Get(active_reminders, reminders[r].uid)
  IN  lst # <<>> /\ r \in Range(lst)

\* bot.py:156-163, the finally block: the dict it leaves
RCleanup(r) ==
  LET uid == reminders[r].uid
      lst == Get(active_reminders, uid)
  IN  IF RInRegistry(r)
      THEN Shrink(active_reminders, uid, RemoveFirst(lst, r))
      ELSE active_reminders

\* how a reminder worker leaving through the finally block ends
REnded(r, pc) ==
  IF RInRegistry(r) /\ RemoveRaises(Get(active_reminders, reminders[r].uid), r)
  THEN "failed" ELSE pc

\* bot.py:165-172
schedule_reminder(keyword, duration, channel, uid) ==
  LET r == Len(reminders) + 1
  IN  /\ reminders' = Append(reminders,
                         [keyword |-> keyword, start_time |-> 0, duration |-> duration,
                          uid |-> uid, channel |-> channel])
      /\ rtask' = Append(rtask, [pc |-> "start", must_cancel |-> FALSE])
      /\ rnotes' = Append(rnotes, <<>>)
      /\ active_reminders' =
           IF uid \in DOMAIN active_reminders
           THEN [active_reminders EXCEPT ![uid] = Append(@, r)]
           ELSE [u \in DOMAIN active_reminders \cup {uid} |->
                   IF u = uid THEN <<r>> ELSE active_reminders[u]]

RReject ==
  /\ Answer("reminder", FALSE)
  /\ UNCHANGED <<timer_vars, reminder_vars>>

\* bot.py:282-316
reminder_command(uid, message, channel) ==
  LET parts == split(strip(message))
      keyword == lower(parts[1])
      parsed == parse_time_string(join(Tail(parts)))
      duration_seconds == IF Len(parts) > 1 THEN parsed.val ELSE HOUR
  IN  IF parts = <<>> THEN RReject
      ELSE IF keyword \notin allowed THEN RReject
      ELSE IF Len(parts) > 1 /\ ~parsed.ok THEN RReject
      ELSE /\ Len(reminders) < MaxReminders
           /\ schedule_reminder(keyword, duration_seconds, channel, uid)
           /\ Answer("reminder", TRUE)
           /\ UNCHANGED timer_vars

\* a cancelled task that keeps running
RRunnableDespiteCancel(r) == r \in 1 .. Len(rtask) /\ ~done(rtask[r])

RRunnable(r) == r \in 1 .. Len(rtask) /\ ~done(rtask[r]) /\ ~rtask[r].must_cancel

\* the task's first step: _run_reminder up to its sleep, bot.py:147
RTaskStart(r) ==
  /\ RRunnable(r)
  /\ rtask[r].pc = "start"
  /\ rtask' = [rtask EXCEPT ![r].pc = "sleep"]
  /\ UNCHANGED <<timer_vars, active_reminders, reminders, rnotes>>
  /\ reply' = NoReply

\* bot.py:147-150: the sleep completes; the message is handed to channel.send,
\* or there is no channel and the worker runs through its finally block
RWake(r) ==
  /\ RRunnable(r)
  /\ rtask[r].pc = "sleep"
  /\ IF reminders[r].channel = "chan"
     THEN /\ rnotes' = [rnotes EXCEPT
                          ![r] = Append(@, [at |-> reminders[r].start_time + reminders[r].duration])]
          /\ rtask' = [rtask EXCEPT ![r].pc = "send"]
          /\ UNCHANGED active_reminders
     ELSE /\ active_reminders' = RCleanup(r)
          /\ rtask' = [rtask EXCEPT ![r].pc = REnded(r, "completed")]
          /\ UNCHANGED rnotes
  /\ UNCHANGED <<timer_vars, reminders>>
  /\ reply' = NoReply

\* bot.py:150-163: channel.send returns, or raises
RSendReturn(r, outcome) ==
  /\ RRunnable(r)
  /\ rtask[r].pc = "send"
  /\ active_reminders' = RCleanup(r)
  /\ rtask' = [rtask EXCEPT
                 ![r].pc = IF outcome = "error" THEN "failed" ELSE REnded(r, "completed")]
  /\ UNCHANGED <<timer_vars, reminders, rnotes>>
  /\ reply' = NoReply

\* the cancelled task's next step (bot.py:153-163); a task that never ran runs nothing
RDeliverCancel(r) ==
  /\ r \in 1 .. Len(rtask)
  /\ ~done(rtask[r])
  /\ rtask[r].must_cancel
  /\ active_reminders' = IF rtask[r].pc = "start" THEN active_reminders ELSE RCleanup(r)
  /\ rtask' = [rtask EXCEPT
                 ![r].pc = IF rtask[r].pc = "start" THEN "cancelled" ELSE REnded(r, "cancelled")]
  /\ UNCHANGED <<timer_vars, reminders, rnotes>>
  /\ reply' = NoReply

ActionInputs ==
  { <<"l", "i", "s", "t">>,
    <<"c", "a", "n", "c", "e", "l">>,
    <<"c", "a", "n", "c", "e", "l", " ", "b", "o", "s", "s">>,
    <<"C", "a", "n", "c", "e", "l", " ", "R", "a", "i", "d", "s">> }

cancel_word == <<"c", "a", "n", "c", "e", "l">>

\* the last reminder of the list with that keyword instead of the first
FindReminderLast(user_reminders, keyword) ==
  LET hits == { i \in 1 .. Len(user_reminders) : reminders[user_reminders[i]].keyword = keyword }
  IN  IF hits = {} THEN 0
      ELSE user_reminders[CHOOSE i \in hits : \A j \in hits : i >= j]

\* bot.py:339-340: the first reminder of the list with that keyword, 0 when there is none
FindReminder(user_reminders, keyword) ==
  LET hits == { i \in 1 .. Len(user_reminders) : reminders[user_reminders[i]].keyword = keyword }
  IN  IF hits = {} THEN 0
      ELSE user_reminders[CHOOSE i \in hits : \A j \in hits : i <= j]

\* bot.py:320-363; the remove of bot.py:343 is called without a test, and its
\* ValueError would leave the handler without an answer
reminders_command(uid, action) ==
  LET user_reminders == Get(active_reminders, uid)
      parts == split(action)
      keyword == lower(parts[2])
      rem == FindReminder(user_reminders, keyword)
  IN  IF parts # <<>> /\ lower(parts[1]) = cancel_word
      THEN IF Len(parts) < 2
           THEN /\ Answer("reminders", FALSE)
                /\ UNCHANGED <<timer_vars, reminder_vars>>
           ELSE IF rem # 0
           THEN IF RemoveRaises(user_reminders, rem)
                THEN /\ rtask' = Cancel(rtask, rem)
                     /\ Answer("error", FALSE)
                     /\ UNCHANGED <<timer_vars, active_reminders, reminders, rnotes>>
                ELSE /\ rtask' = Cancel(rtask, rem)
                     /\ active_reminders' =
                          Shrink(active_reminders, uid, RemoveFirst(user_reminders, rem))
                     /\ Answer("reminders", TRUE)
                     /\ UNCHANGED <<timer_vars, reminders, rnotes>>
           ELSE /\ Answer("reminders", FALSE)
                /\ UNCHANGED <<timer_vars, reminder_vars>>
      ELSE /\ Answer("reminders", TRUE)
           /\ UNCHANGED <<timer_vars, reminder_vars>>

\* ------------------------------------------------------------ specification
TimerNumbers == 1 .. MaxTimers

TimerCommand == \E c \in TimerCalls : timer_command(c[1], c[2], c[3], c[4])

RemoveCommand == \E n \in TimerNumbers : remove_command(n)

TimerStep(k) ==
  \/ TaskStart(k)
  \/ WakePre(k)
  \/ \E outcome \in SendOutcomes : SendReturn(k, outcome)
  \/ WakeFinal(k)
  \/ WakeShort(k)
  \/ DeliverCancel(k)

TimerWorker == \E k \in 1 .. MaxTimers : TimerStep(k)

ReminderCommand == \E c \in ReminderCalls : reminder_command(c[1], c[2], c[3])

RemindersCommand == \E uid \in Users, action \in ActionInputs : reminders_command(uid, action)

ReminderStep(r) ==
  \/ RTaskStart(r)
  \/ RWake(r)
  \/ \E outcome \in SendOutcomes : RSendReturn(r, outcome)
  \/ RDeliverCancel(r)

ReminderWorker == \E r \in 1 .. MaxReminders : ReminderStep(r)

\* timers alone
NextTimers ==
  \/ TimerCommand
  \/ RemoveCommand
  \/ \E k \in 1 .. MaxTimers : TaskStart(k)
  \/ \E k \in 1 .. MaxTimers : WakePre(k)
  \/ \E k \in 1 .. MaxTimers, outcome \in SendOutcomes : SendReturn(k, outcome)
  \/ \E k \in 1 .. MaxTimers : WakeFinal(k)
  \/ \E k \in 1 .. MaxTimers : WakeShort(k)
  \/ \E k \in 1 .. MaxTimers : DeliverCancel(k)

SpecTimers == Init /\ [][NextTimers]_vars

\* the event loop runs every task that is ready: a sleep that is due completes, a
\* send returns or raises, a cancelled task gets its CancelledError
FairSpecTimers == SpecTimers /\ \A k \in 1 .. MaxTimers : WF_vars(TimerStep(k))

\* the parser alone: reply holds the string a handler is called with, then what
\* parse_time_string made of it
InitParser ==
  /\ active_timers = <<>>
  /\ timers = <<>>
  /\ timer_id_counter = 1
  /\ task = <<>>
  /\ clock = <<>>
  /\ notes = <<>>
  /\ hops_done = <<>>
  /\ removed = {}
  /\ active_reminders = <<>>
  /\ reminders = <<>>
  /\ rtask = <<>>
  /\ rnotes = <<>>
  /\ \E time_str \in ParserInputs : reply = [cmd |-> "time", time_str |-> time_str]

Parse ==
  /\ reply.cmd = "time"
  /\ reply' = [cmd |-> "parsed", time_str |-> reply.time_str,
                result |-> parse_time_string(reply.time_str)]
  /\ UNCHANGED <<timer_vars, reminder_vars>>

SpecParser == InitParser /\ [][Parse]_vars

\* one timer and its listing
NextDisplay ==
  \/ \E c \in DisplayCalls : timer_command(c[1], c[2], c[3], c[4]) /\ Len(timers') = 1
  \/ \E elapsed \in DisplayElapsed : timers_command(elapsed)
  \/ TaskStart(1)
  \/ WakePre(1)
  \/ \E outcome \in SendOutcomes : SendReturn(1, outcome)
  \/ WakeFinal(1)
  \/ WakeShort(1)

SpecDisplay == Init /\ [][NextDisplay]_vars

\* reminders alone
NextReminders ==
  \/ ReminderCommand
  \/ RemindersCommand
  \/ \E r \in 1 .. MaxReminders : RTaskStart(r)
  \/ \E r \in 1 .. MaxReminders : RWake(r)
  \/ \E r \in 1 .. MaxReminders, outcome \in SendOutcomes : RSendReturn(r, outcome)
  \/ \E r \in 1 .. MaxReminders : RDeliverCancel(r)

SpecReminders == Init /\ [][NextReminders]_vars

FairSpecReminders == SpecReminders /\ \A r \in 1 .. MaxReminders : WF_vars(ReminderStep(r))

Fits == Len(timers) + Len(reminders) <= MaxObjects

\* timers and reminders together
Next ==
  \/ TimerCommand /\ Fits'
  \/ RemoveCommand
  \/ TimerWorker
  \/ ReminderCommand /\ Fits'
  \/ RemindersCommand
  \/ ReminderWorker

Spec == Init /\ [][Next]_vars


\* ------------------------------------------------------------------ claims
Objects == 1 .. Len(timers)
Registered(k) == k \in Range(active_timers)
Present(n) == \E i \in 1 .. Len(active_timers) : timers[active_timers[i]].id = n

\* C1: at most one registered timer has any given non-empty link.
C1_LinkUnique ==
  \A i, j \in 1 .. Len(active_timers) :
    (i # j /\ timers[active_timers[i]].link # <<>>)
      => timers[active_timers[i]].link # timers[active_timers[j]].link

\* a create was turned down while two timers, one of them holding the link "a",
\* are registered
C1_Witness ==
  /\ reply = [cmd |-> "timer", ok |-> FALSE]
  /\ Len(active_timers) = 2
  /\ \E i \in 1 .. 2 : timers[active_timers[i]].link = <<"a">>

\* C2: once remove_command reported a timer deleted, the record is out of the
\* registry for good and its worker hands no further notification to the channel.
C2_NoNotificationAfterCancel ==
  [][\A k \in Objects :
       /\ timers[k].id \in removed' => ~Registered(k)'
       /\ timers[k].id \in removed => notes'[k] = notes[k]]_vars

\* a timer removed after its first early warning, its worker ended by the cancel
C2_Witness ==
  \E k \in Objects :
    /\ timers[k].id \in removed
    /\ task[k].pc = "cancelled"
    /\ Len(notes[k]) = 1
    /\ timers[k].hops = 2

\* C3: remove_command(n) answers "deleted" exactly when a record with id n is
\* registered, answers "not found" otherwise and then changes nothing; a second
\* call for an id already deleted answers "not found".
C3_RemoveResult ==
  [][\A n \in TimerNumbers :
       remove_command(n) =>
         /\ reply'.cmd = "remove"
         /\ reply'.ok <=> Present(n)
         /\ ~Present(n) => UNCHANGED <<timer_vars, reminder_vars>>
         /\ n \in removed => ~reply'.ok]_vars

\* a remove was answered "not found" when every id it can have asked for had
\* been deleted before
C3_Witness ==
  /\ reply = [cmd |-> "remove", ok |-> FALSE]
  /\ removed = TimerNumbers

NotesOfHop(k, h) == { i \in 1 .. Len(notes[k]) : notes[k][i].hop = h }

\* the duration of hop h (from 0) of record k, as the claim words it
ClaimedDuration(k, h) == IF h = 0 THEN timers[k].initial_duration ELSE 7200

\* C4: for a timer with a channel, a hop of at most 300 s hands no early warning
\* to the channel, a longer hop exactly one, duration - 300 s after the hop began;
\* a hop that ran to its end ended duration s after it began.
C4_FiveMinuteBoundary ==
  \A k \in Objects :
    timers[k].channel = "chan" =>
      /\ \A i \in 1 .. Len(hops_done[k]) :
           LET d == ClaimedDuration(k, i - 1)
               hd == hops_done[k][i]
           IN  /\ hd.end = hd.start + d
               /\ IF d <= 300
                  THEN NotesOfHop(k, i - 1) = {}
                  ELSE \E j \in NotesOfHop(k, i - 1) :
                         /\ NotesOfHop(k, i - 1) = {j}
                         /\ notes[k][j].at = hd.start + d - 300
      /\ \A j \in 1 .. Len(notes[k]) :
           LET h == notes[k][j].hop
               d == ClaimedDuration(k, h)
               start == IF h < Len(hops_done[k]) THEN hops_done[k][h + 1].start
                        ELSE task[k].hop_start
           IN  /\ d > 300
               /\ Cardinality(NotesOfHop(k, h)) = 1
               /\ notes[k][j].at = start + d - 300
      /\ task[k].pc \in {"send", "finalsleep"} => NotesOfHop(k, task[k].hop) # {}

\* one timer went through a 360 s hop and a 7200 s hop with one warning each,
\* another through a hop of exactly 300 s without any
C4_Witness ==
  /\ \E k \in Objects :
       /\ timers[k].channel = "chan"
       /\ Len(hops_done[k]) = 2
       /\ Len(notes[k]) = 2
  /\ \E k \in Objects :
       /\ timers[k].channel = "chan"
       /\ timers[k].initial_duration = 300
       /\ Len(hops_done[k]) = 1
       /\ notes[k] = <<>>

\* C5 as stated: a timer is out of the registry exactly when its remaining_hops
\* has reached 0 or it was cancelled.
C5_Original ==
  \A k \in Objects :
    ~Registered(k) <=> (timers[k].remaining_hops = 0 \/ timers[k].id \in removed)

\* C5 amended: remaining_hops is hops - h while hop h (from 0) runs, so it goes
\* from hops down to 1 and never reaches 0; a timer is out of the registry exactly
\* when its worker has ended or it was cancelled, and a timer that completed all
\* its hops has remaining_hops = 1.
C5_CountdownToOne ==
  \A k \in Objects :
    /\ timers[k].remaining_hops = timers[k].hops - task[k].hop
    /\ timers[k].remaining_hops \in 1 .. timers[k].hops
    /\ ~Registered(k) <=> (done(task[k]) \/ timers[k].id \in removed)
    /\ task[k].pc = "completed" =>
         /\ Len(hops_done[k]) = timers[k].hops
         /\ timers[k].remaining_hops = 1

\* a two-hop timer completed
C5_Witness ==
  \E k \in Objects :
    /\ task[k].pc = "completed"
    /\ timers[k].hops = 2
    /\ ~Registered(k)
    /\ timers[k].id \notin removed

\* C6: remaining_hops stays within 0 .. hops, never increases, and changes only
\* in a step of the record's own worker.
C6_RemainingHops ==
  [][/\ \A k \in 1 .. Len(timers') : timers'[k].remaining_hops \in 0 .. timers'[k].hops
     /\ \A k \in Objects :
          /\ timers'[k].remaining_hops <= timers[k].remaining_hops
          /\ timers'[k].remaining_hops # timers[k].remaining_hops =>
               TaskStart(k) \/ WakeFinal(k) \/ WakeShort(k)]_vars

\* a two-hop timer in its second hop, with one hop left, beside another timer
C6_Witness ==
  /\ Len(timers) = 2
  /\ \E k \in Objects :
       /\ timers[k].hops = 2
       /\ timers[k].remaining_hops = 1
       /\ task[k].pc = "presleep"

\* C7: every registered timer and every registered reminder has a task that has
\* not finished.
C7_NoOrphans ==
  /\ \A k \in Objects : Registered(k) => ~done(task[k])
  /\ \A uid \in DOMAIN active_reminders :
       \A i \in 1 .. Len(active_reminders[uid]) : ~done(rtask[active_reminders[uid][i]])

\* a timer worker ended by an exception and a reminder worker by completion
C7_Witness ==
  /\ \E k \in Objects : task[k].pc = "failed"
  /\ \E r \in 1 .. Len(reminders) : rtask[r].pc = "completed"

\* the waits the claim promises: hops of them, the first of initial_duration
\* seconds, the others of 7200 seconds, one right after the other
PromisedHops(k) ==
  /\ Len(hops_done[k]) = timers[k].hops
  /\ \A i \in 1 .. Len(hops_done[k]) :
       /\ hops_done[k][i].end - hops_done[k][i].start
            = (IF i = 1 THEN timers[k].initial_duration ELSE 7200)
       /\ hops_done[k][i].start = (IF i = 1 THEN 0 ELSE hops_done[k][i - 1].end)
  /\ clock[k] = timers[k].initial_duration + 7200 * (timers[k].hops - 1)

C9_IdsIncrease ==
  /\ \A i, j \in Objects : i < j => timers[i].id < timers[j].id
  /\ \A k \in Objects : timers[k].id \in 1 .. timer_id_counter - 1
  /\ \A i, j \in 1 .. Len(active_timers) :
       i # j => timers[active_timers[i]].id # timers[active_timers[j]].id

\* the first timer is gone and a later create got a new id, not the free one
C9_Witness ==
  /\ Len(timers) = 2
  /\ active_timers = <<2>>
  /\ timers[2].id > timers[1].id

\* why a call is turned down, stated on the arguments and the registry
Rejected(c) ==
  \/ ~parse_time_string(c[1]).ok
  \/ c[2] < 1
  \/ /\ strip(c[3]) # <<>>
     /\ \E k \in Objects : Registered(k) /\ timers[k].link = strip(c[3])

\* C10: a timer_command call turned down for its time, its hops or its link
\* leaves the registry, every record, the id counter and the tasks as they were.
C10_RejectedCreateFrame ==
  [][\A c \in TimerCalls :
       (reply'.cmd = "timer" /\ Rejected(c) /\ timer_command(c[1], c[2], c[3], c[4])) =>
         /\ ~reply'.ok
         /\ UNCHANGED <<active_timers, timers, timer_id_counter, task>>]_vars

\* a call was turned down while a timer is registered and in its second hop
C10_Witness ==
  /\ reply = [cmd |-> "timer", ok |-> FALSE]
  /\ \E k \in Objects : Registered(k) /\ task[k].pc = "presleep" /\ task[k].hop = 1

\* the ways a send can fail: channel.send raises an error of the Discord library,
\* or any other exception
SendFailures == { "discord_error", "error" }

\* C11 as stated: when the send of a hop's early warning fails, the worker is not
\* ended by it: it goes on to the remaining 300 s of the hop and its record stays
\* in the registry.
C11_Original ==
  [][\A k \in Objects : \A outcome \in SendFailures :
       SendReturn(k, outcome) =>
         /\ task'[k].pc = "finalsleep"
         /\ Registered(k)'
         /\ UNCHANGED timers]_vars

\* C11 amended: a send that fails with an error of the Discord library does not
\* end the worker: the record stays as it is and in the registry, the worker waits
\* the remaining 300 s of the hop, and the record leaves the registry only by
\* completion, by cancellation or by a later failure; a send that fails with any
\* other exception ends the worker, which removes its record.
C11_CaughtFailureContinues ==
  /\ [][\A k \in Objects :
          /\ SendReturn(k, "discord_error") =>
               /\ task'[k].pc = "finalsleep"
               /\ Registered(k)'
               /\ UNCHANGED <<timers, active_timers>>
          /\ SendReturn(k, "error") =>
               /\ task'[k].pc = "failed"
               /\ ~Registered(k)'
               /\ UNCHANGED timers]_vars
  /\ [](\A k \in Objects :
          task[k].sent = "discord_error" =>
            /\ task[k].pc # "failed"
            /\ Registered(k) \/ timers[k].id \in removed
            /\ \A i \in 1 .. Len(hops_done[k]) :
                 hops_done[k][i].end - hops_done[k][i].start = ClaimedDuration(k, i - 1))
  /\ \A k \in 1 .. MaxTimers : \A h \in 0 .. MaxHops - 1 :
       [](( /\ k \in Objects
            /\ task[k].sent = "discord_error"
            /\ task[k].pc = "finalsleep"
            /\ task[k].hop = h )
          => <>(k \in Objects /\ (timers[k].id \in removed \/ Len(hops_done[k]) = h + 1)))

\* the first warning of a two-hop timer failed with a Discord error; the hop's
\* 360 s were waited all the same and the worker is in its second hop
C11_Witness ==
  \E k \in Objects :
    /\ task[k].sent = "discord_error"
    /\ task[k].pc = "presleep"
    /\ task[k].hop = 1
    /\ hops_done[k] = << [start |-> 0, end |-> 360] >>
    /\ Registered(k)

\* a list without the object x, and the reminders dict without the reminder r
Others(q, x) == SelectSeq(q, LAMBDA y : y # x)
WithoutReminder(d, r) ==
  [u \in { v \in DOMAIN d : Others(d[v], r) # <<>> } |-> Others(d[u], r)]

\* C12: when a timer's or a reminder's worker ends through an unexpected failure,
\* its own record leaves the registry and nothing else changes: the other records
\* stay registered, in their order and with their fields, no record of the other
\* kind is touched, and every other worker is where it was, free to go on.
C12_FaultIsolation ==
  [][/\ \A k \in Objects :
          (task'[k].pc = "failed" /\ SendReturn(k, "error")) =>
            /\ active_timers' = Others(active_timers, k)
            /\ timers' = timers
            /\ \A j \in Objects \ {k} : task'[j] = task[j]
            /\ UNCHANGED <<timer_id_counter, clock, notes, hops_done, removed, reminder_vars>>
     /\ \A r \in 1 .. Len(reminders) :
          (rtask'[r].pc = "failed" /\ RSendReturn(r, "error")) =>
            /\ active_reminders' = WithoutReminder(active_reminders, r)
            /\ reminders' = reminders
            /\ \A q \in 1 .. Len(reminders) \ {r} : rtask'[q] = rtask[q]
            /\ UNCHANGED <<rnotes, timer_vars>>]_vars

\* the worker of a user's first reminder ended by an exception of its send; the
\* same user's second reminder is still registered and its worker still asleep
C12_Witness ==
  /\ Len(reminders) = 2
  /\ rtask[1].pc = "failed"
  /\ reminders[1].uid = reminders[2].uid
  /\ 1 \in DOMAIN active_reminders
  /\ active_reminders[1] = <<2>>
  /\ rtask[2].pc = "sleep"

RObjects == 1 .. Len(reminders)
RRegistered(r) == \E u \in DOMAIN active_reminders : r \in Range(active_reminders[u])

\* C13 as stated: a reminder whose worker ended without a cancel has emitted
\* exactly one notification, when its duration had elapsed, and is deregistered;
\* a cancelled reminder is deregistered; no reminder emits more than one.
C13_Original ==
  \A r \in RObjects :
    /\ Len(rnotes[r]) <= 1
    /\ rtask[r].pc \in {"completed", "failed"} =>
         /\ rnotes[r] = << [at |-> reminders[r].duration] >>
         /\ ~RRegistered(r)
    /\ rtask[r].must_cancel => ~RRegistered(r)

\* C13 amended: a reminder that is not cancelled hands exactly one notification
\* to its channel when it has a channel, and none when it has none, after its
\* full duration, and is then deregistered (also when the send fails); a reminder
\* cancelled through reminders_command is deregistered by the command and emits
\* nothing from then on, so nothing at all when it had not fired yet; no reminder
\* emits more than one notification.
C13_ReminderLifecycle ==
  /\ [](\A r \in RObjects :
          /\ Len(rnotes[r]) <= 1
          /\ \A i \in 1 .. Len(rnotes[r]) : rnotes[r][i].at = reminders[r].duration
          /\ rtask[r].pc \in {"start", "sleep"} => rnotes[r] = <<>>
          /\ rtask[r].pc \in {"send", "completed", "failed"} =>
               Len(rnotes[r]) = (IF reminders[r].channel = "chan" THEN 1 ELSE 0)
          /\ rtask[r].pc \in {"completed", "failed"} => ~RRegistered(r)
          /\ rtask[r].must_cancel => ~RRegistered(r))
  /\ [][\A r \in RObjects : rtask[r].must_cancel => rnotes'[r] = rnotes[r]]_vars
  /\ \A r \in 1 .. MaxReminders :
       /\ [](r \in RObjects => <>(r \in RObjects /\ ~RRegistered(r)))
       /\ [](r \in RObjects =>
               <>(/\ r \in RObjects
                  /\ \/ rtask[r].must_cancel
                     \/ Len(rnotes[r]) = (IF reminders[r].channel = "chan" THEN 1 ELSE 0)
                  /\ done(rtask[r])))

\* one reminder fired after its 3600 s and its worker completed; another was
\* cancelled while it waited and its worker ended without a notification
C13_Witness ==
  /\ \E r \in RObjects :
       /\ rtask[r].pc = "completed"
       /\ rnotes[r] = << [at |-> 3600] >>
  /\ \E r \in RObjects :
       /\ rtask[r].pc = "cancelled"
       /\ rnotes[r] = <<>>

\* the alert time the claim words: the moment of the early warning for a hop of
\* more than 300 s, the end of the hop otherwise
ClaimedAlertTime(start, d) == IF d > 300 THEN start + d - 300 ELSE start + d

\* C14 as stated: alert_time is hop start + duration - 300 for a hop longer than
\* 300 s and hop start + duration otherwise, at creation and from every hop
\* start on, so that the listed time is 0 when the early warning is sent.
C14_Original ==
  \A k \in Objects :
    /\ timers[k].alert_time
         = ClaimedAlertTime(task[k].hop_start, ClaimedDuration(k, task[k].hop))
    /\ \A j \in NotesOfHop(k, task[k].hop) : Remaining(timers[k], notes[k][j].at) = 0

\* C14 amended: at creation and at the start of every hop alert_time is set to
\* hop start + hop duration, the end of the hop, whatever the duration; the time
\* listed for a hop longer than 300 s is 300 s when the early warning is sent
\* and reaches 0 at the end of the hop.
C14_AlertAtHopEnd ==
  \A k \in Objects :
    /\ timers[k].alert_time = task[k].hop_start + ClaimedDuration(k, task[k].hop)
    /\ \A j \in NotesOfHop(k, task[k].hop) : Remaining(timers[k], notes[k][j].at) = 300
    /\ \A i \in 1 .. Len(hops_done[k]) :
         i = task[k].hop + 1 => Remaining(timers[k], hops_done[k][i].end) = 0

\* a two-hop timer of 360 s that handed over the warning of its second hop,
\* 7260 s after its start, with alert_time at 7560 s
C14_Witness ==
  \E k \in Objects :
    /\ task[k].hop = 1
    /\ task[k].pc = "send"
    /\ timers[k].alert_time = 7560
    /\ \E j \in NotesOfHop(k, 1) : notes[k][j].at = 7260

\* the display the claim words for a number of seconds
ClaimedDisplay(remaining) ==
  IF remaining = 0
  THEN <<"a", "l", "e", "r", "t", " ", "p", "e", "n", "d", "i", "n", "g">>
  ELSE IF remaining \div 3600 > 0
  THEN str(remaining \div 3600) \o <<"h">> \o str((remaining \div 60) % 60) \o <<"m">>
  ELSE IF remaining \div 60 > 0
  THEN str(remaining \div 60) \o <<"m">>
  ELSE <<"l", "e", "s", "s", " ", "t", "h", "a", "n", " ", "1", " ", "m", "i", "n", "u", "t", "e">>

\* the seconds left for the i-th listed timer when /timers is called elapsed
\* seconds after its worker's last wake
ListedRemaining(i, elapsed) ==
  max0(timers[active_timers[i]].alert_time - (clock[active_timers[i]] + elapsed))

\* C15 as stated: the listing shows 'alert pending' for 0 seconds left,
\* '{h}h{m}m' from one hour on, '{m}m' from one minute on, and 'less than 1
\* minute' below one minute.
C15_Original ==
  [][\A elapsed \in DisplayElapsed :
       (reply'.cmd = "timers" /\ timers_command(elapsed)) =>
         \A i \in 1 .. Len(active_timers) :
           reply'.lines[i].display = ClaimedDisplay(ListedRemaining(i, elapsed))]_vars

\* C15 amended: with remaining = max(0, alert_time - now) in whole seconds, the
\* listing shows '{h}h{m}m' when remaining // 3600 > 0 and '{m}m' otherwise, with
\* h = remaining // 3600 and m = (remaining // 60) mod 60: so '0m' both for
\* remaining = 0 and for 0 < remaining < 60.
C15_Display ==
  [][\A elapsed \in DisplayElapsed :
       (reply'.cmd = "timers" /\ timers_command(elapsed)) =>
         /\ Len(reply'.lines) = Len(active_timers)
         /\ \A i \in 1 .. Len(active_timers) :
              LET remaining == ListedRemaining(i, elapsed)
                  h == remaining \div 3600
                  m == (remaining \div 60) % 60
                  display == reply'.lines[i].display
              IN  /\ remaining >= 0
                  /\ h > 0 => display = str(h) \o <<"h">> \o str(m) \o <<"m">>
                  /\ h = 0 => display = str(m) \o <<"m">>
                  /\ remaining < 60 => display = <<"0", "m">>]_vars

\* the listing was read when the one-minute timer had 59 s left and showed 0m
C15_Witness ==
  /\ reply.cmd = "timers"
  /\ reply.at = 1
  /\ Len(reply.lines) = 1
  /\ reply.lines[1].display = <<"0", "m">>
  /\ timers[1].alert_time = 60
  /\ clock[1] = 0

\* digits followed by the letter
IsGroup(x, letter) ==
  /\ Len(x) >= 2
  /\ x[Len(x)] = letter
  /\ \A j \in 1 .. Len(x) - 1 : x[j] \in Digits

\* c is an hours group or nothing, followed by a minutes group or nothing, the
\* hours group ending at position i
SplitAt(c, i) ==
  /\ i = 0 \/ IsGroup(SubSeq(c, 1, i), "h")
  /\ i = Len(c) \/ IsGroup(SubSeq(c, i + 1, Len(c)), "m")

Shaped(c) == \E i \in 0 .. Len(c) : SplitAt(c, i)

\* hours * 3600 + minutes * 60 of a string of that shape
TotalOf(c) ==
  LET i == CHOOSE j \in 0 .. Len(c) : SplitAt(c, j)
      hours == IF i = 0 THEN 0 ELSE int(SubSeq(c, 1, i - 1))
      minutes == IF i = Len(c) THEN 0 ELSE int(SubSeq(c, i + 1, Len(c) - 1))
  IN  hours * 3600 + minutes * 60

\* what the parser answers on a cleaned string c, at least one group being
\* required for a match or not
Classified(c, needs_group) ==
  IF ~Shaped(c) \/ (needs_group /\ c = <<>>)
  THEN [ok |-> FALSE, val |-> 0, err |-> "format"]
  ELSE IF TotalOf(c) <= 0 THEN [ok |-> FALSE, val |-> 0, err |-> "nonpositive"]
  ELSE [ok |-> TRUE, val |-> TotalOf(c), err |-> "none"]

Whitespace == { " ", "\t" }

\* C16 as stated: with whitespace removed and letters lower-cased, the parser
\* returns hours*3600 + minutes*60 for a string of the shape with at least one
\* group and a total > 0, fails as non-positive for one with a total <= 0, and
\* fails as invalid format for every other string, the empty one included.
C16_Original ==
  reply.cmd = "parsed" =>
    reply.result =
      Classified(lower(SelectSeq(reply.time_str, LAMBDA ch : ch \notin Whitespace)), TRUE)

\* C16 amended: with the space characters removed (no other whitespace) and
\* letters lower-cased, the parser returns hours*3600 + minutes*60 when the whole
\* string is (<digits>h)?(<digits>m)? and the total is > 0; fails as non-positive
\* when it has that shape and the total is <= 0, which includes the empty string;
\* and fails as invalid format for every other string.
C16_ParserClassification ==
  reply.cmd = "parsed" =>
    /\ reply.result =
         Classified(lower(SelectSeq(reply.time_str, LAMBDA ch : ch # " ")), FALSE)
    /\ reply.result.ok =>
         /\ reply.result.val > 0
         /\ reply.result.val % 60 = 0

\* " 1H 30M " was parsed to 5400 s
C16_Witness ==
  /\ reply.cmd = "parsed"
  /\ reply.time_str = <<" ", "1", "H", " ", "3", "0", "M", " ">>
  /\ reply.result = [ok |-> TRUE, val |-> 5400, err |-> "none"]

\* C17: the list timers_command enumerates is in creation order: from first to
\* last its records are ever later created and their ids strictly increase.
C17_ListingOrder ==
  \A i, j \in 1 .. Len(active_timers) :
    i < j =>
      /\ active_timers[i] < active_timers[j]
      /\ timers[active_timers[i]].id < timers[active_timers[j]].id

\* two timers are listed, the second created while the first was in its second
\* hop
C17_Witness ==
  /\ Len(active_timers) = 2
  /\ timers[active_timers[1]].id = 1
  /\ timers[active_timers[2]].id = 2
  /\ task[active_timers[1]].hop = 1
  /\ task[active_timers[2]].pc = "start"

\* C18: a cancel command and the worker's own cleanup never remove the same
\* record twice: the path that runs second finds the record absent and leaves
\* the registry as it is, and no removal raises an error, for timers and for
\* reminders: a cancelled worker ends cancelled, a worker fails only by its send,
\* and no command is left without an answer.
C18_RemovalIdempotent ==
  /\ [](/\ \A k \in Objects :
             /\ (task[k].must_cancel /\ done(task[k])) => task[k].pc = "cancelled"
             /\ task[k].pc = "failed" => task[k].sent = "error"
        /\ \A r \in RObjects :
             /\ (rtask[r].must_cancel /\ done(rtask[r])) => rtask[r].pc = "cancelled"
             /\ rtask[r].pc = "failed" => Len(rnotes[r]) = 1
        /\ reply.cmd # "error")
  /\ [][/\ \A k \in Objects :
             (~Registered(k) /\ TimerStep(k)) =>
               UNCHANGED <<active_timers, timers>>
        /\ \A r \in RObjects :
             (~RRegistered(r) /\ ReminderStep(r)) => UNCHANGED <<active_reminders, reminders>>
        /\ \A n \in TimerNumbers :
             (reply'.cmd = "remove" /\ ~Present(n) /\ remove_command(n)) =>
               UNCHANGED <<timer_vars, reminder_vars>>
        /\ \A uid \in Users, action \in ActionInputs :
             (reply'.cmd = "reminders" /\ ~reply'.ok /\ reminders_command(uid, action)) =>
               UNCHANGED <<timer_vars, reminder_vars>>]_vars

\* a timer's worker completed and a later remove of its id was answered "not
\* found"; a reminder was cancelled by its user while its send was in flight, and
\* its worker's cleanup then found it gone
C18_Witness ==
  /\ reply = [cmd |-> "remove", ok |-> FALSE]
  /\ \E k \in Objects : task[k].pc = "completed" /\ timers[k].id \notin removed
  /\ \E r \in RObjects :
       /\ rtask[r].must_cancel
       /\ rtask[r].pc = "cancelled"
       /\ Len(rnotes[r]) = 1

\* the registered reminders of user uid with that keyword, and the earliest
\* registered of them
Matching(uid, keyword) ==
  { r \in RObjects :
      RRegistered(r) /\ reminders[r].uid = uid /\ reminders[r].keyword = keyword }
Earliest(S) == CHOOSE r \in S : \A q \in S : r <= q

\* the keyword a reminders action asks to cancel, <<>> when it asks for none
CancelKeyword(action) ==
  LET parts == split(action)
  IN  IF Len(parts) >= 2 /\ lower(parts[1]) = cancel_word THEN lower(parts[2]) ELSE <<>>

\* C19: 'cancel <keyword>' by user uid, when uid has a registered reminder with
\* that keyword, cancels and deregisters the earliest registered of them and
\* nothing else: every other reminder keeps its place in its user's list and its
\* task; when uid has none, nothing changes.
C19_CancelScope ==
  [][\A uid \in Users, action \in ActionInputs :
       (reply'.cmd = "reminders" /\ CancelKeyword(action) # <<>>
          /\ reminders_command(uid, action)) =>
         LET S == Matching(uid, CancelKeyword(action))
         IN  IF S = {}
             THEN ~reply'.ok /\ UNCHANGED reminder_vars
             ELSE \E e \in {Earliest(S)} :
                    /\ reply'.ok
                    /\ rtask'[e].must_cancel
                    /\ ~RRegistered(e)'
                    /\ active_reminders' = WithoutReminder(active_reminders, e)
                    /\ \A q \in RObjects \ {e} : rtask'[q] = rtask[q] /\ RRegistered(q)' = RRegistered(q)
                    /\ UNCHANGED <<reminders, rnotes>>]_vars

\* user 1 had two boss reminders and cancelled boss: the first is cancelled and
\* gone, the second is still registered and its worker still asleep
C19_Witness ==
  /\ reply = [cmd |-> "reminders", ok |-> TRUE]
  /\ Len(reminders) = 2
  /\ reminders[1].uid = 1 /\ reminders[2].uid = 1
  /\ reminders[1].keyword = reminders[2].keyword
  /\ rtask[1].must_cancel
  /\ ~rtask[2].must_cancel
  /\ rtask[2].pc = "sleep"
  /\ active_reminders = [u \in {1} |-> <<2>>]

\* C20: every key of active_reminders maps to a non-empty list, and a user
\* without a registered reminder has no key.
C20_NoEmptyBuckets ==
  /\ \A uid \in DOMAIN active_reminders : active_reminders[uid] # <<>>
  /\ \A uid \in Users :
       uid \in DOMAIN active_reminders
         <=> \E r \in RObjects : RRegistered(r) /\ reminders[r].uid = uid
  /\ \A uid \in DOMAIN active_reminders :
       \A i \in 1 .. Len(active_reminders[uid]) :
         reminders[active_reminders[uid][i]].uid = uid

\* user 1 cancelled a reminder whose send was in flight, which took the key
\* away, and has a new reminder since; the cancelled worker's cleanup has run
\* and the key holds the new reminder alone
C20_Witness ==
  /\ Len(reminders) = 2
  /\ reminders[1].uid = 1 /\ reminders[2].uid = 1
  /\ rtask[1].must_cancel
  /\ rtask[1].pc = "cancelled"
  /\ Len(rnotes[1]) = 1
  /\ rtask[2].pc = "start"
  /\ DOMAIN active_reminders = {1}
  /\ active_reminders[1] = <<2>>

=============================================================================
